---- MODULE Spec2Model ----
(***************************************************************************)
(* Model of game/managers/soundmanager.py (class SoundManager) and of the  *)
(* start-up code of game/main.py (_load_sounds, main).                     *)
(*                                                                         *)
(* Strings are TLA+ strings.  A pygame.mixer.Sound object is a record      *)
(* [file, volume]: the file it was decoded from and its playback gain in   *)
(* hundredths (a new Sound has gain 1.0 = 100).  Sound, Channel objects    *)
(* define neither __bool__ nor __len__, so they are always truthy.          *)
(***************************************************************************)
EXTENDS Integers, Sequences, FiniteSets, TLC

(* ------------------------------ bounds -------------------------------- *)

\* number of SoundManager calls a test driver makes on one store
MaxOps == 4

\* number of SoundManager calls the scenes make during one run of main()
MaxSceneOps == 2

(* --------------------------- value universes -------------------------- *)

\* logical names used by the manifest of main()
Names == {"jump", "hit"}

\* file names under sound_dir
Files == {"jump.mp3", "hit.mp3"}

\* strings the callers pass as a sound name; play_music passes a file name to
\* _warn_missing_sound, so file names and sound names share _missing_sounds
Keys == Names \cup {"hit.mp3"}

\* gains passed to set_volume, in hundredths (0.0 and 0.05 of the manifest)
Volumes == {0, 5}

\* what the file system holds for a file name of sound_dir
FileStates == {"ok", "corrupt", "absent"}

VARIABLES
    sounds,            \* self.sounds: dict name -> Sound
    sound_on,          \* self.sound_on
    _missing_sounds,   \* self._missing_sounds
    fileState,         \* the files of sound_dir: file name -> FileStates
    music,             \* pygame.mixer.music: the file loaded and playing, or "none"
    warnings,          \* per string: "Sound '%s' is not registered" lines logged
    last,              \* what the most recent SoundManager call did
    history,           \* the two most recent calls, each with the store as it was before it
    loaded,            \* per name: the file of its most recent successful load_sound
    load_failed,       \* the names whose most recent load_sound failed
    play_warnings,     \* per string: "is not registered" lines logged by play
    found_channel,     \* what find_channel() returned to the most recent play
    nops,              \* SoundManager calls made so far by callers other than _load_sounds
    pc,                \* where the process is
    index,             \* _load_sounds: the enumerate() index of the current entry
    queue,             \* the pygame event queue
    log,               \* _load_sounds: the calls it made and the frames it drew, in order
    pygame_quit,       \* pygame.quit() has been called
    current_scene,     \* main: the active scene object
    is_running,        \* current_scene.is_running
    next_scene,        \* current_scene.next_scene (0 is None)
    cleaned            \* per scene object: the number of cleanup() calls it received

storeVars == <<sounds, sound_on, _missing_sounds, fileState, music, warnings, last,
               history, loaded, load_failed, play_warnings, found_channel, nops>>

progVars == <<pc, index, queue, log, pygame_quit, current_scene, is_running, next_scene, cleaned>>

vars == <<sounds, sound_on, _missing_sounds, fileState, music, warnings, last,
          history, loaded, load_failed, play_warnings, found_channel, nops,
          pc, index, queue, log, pygame_quit, current_scene, is_running, next_scene, cleaned>>

AllKeys == Names \cup Keys \cup Files

\* the observable effects of one call: the exception that left it ("none" when
\* it returned), the line it logged, the Sound objects handed to the mixer and
\* how, and the Sound objects whose gain it set
Effect(op, name, raised, logged, via, played, volset) ==
    [op |-> op, name |-> name, raised |-> raised, logged |-> logged,
     via |-> via, played |-> played, volset |-> volset]

NoEffect == Effect("none", "", "none", "none", "none", {}, {})

\* the fields of the SoundManager object, and the music channel of the mixer
Store ==
    [sounds |-> sounds, sound_on |-> sound_on, missing |-> _missing_sounds,
     music |-> music]

\* history after a call of op: the last two calls are kept
Called(op) ==
    LET h == Append(history, [op |-> op, before |-> Store])
    IN  IF Len(h) > 2 THEN Tail(h) ELSE h

(* ------------------------------ __init__ ------------------------------ *)

SoundManagerInit ==
    /\ sounds = <<>>
    /\ sound_on = TRUE
    /\ _missing_sounds = {}
    /\ music = "none"
    /\ warnings = [k \in AllKeys |-> 0]
    /\ last = NoEffect
    /\ history = <<>>
    /\ loaded = <<>>
    /\ load_failed = {}
    /\ play_warnings = [k \in AllKeys |-> 0]
    /\ found_channel = "not_called"
    /\ nops = 0

(* ----------------------------- load_sound ----------------------------- *)

\* pygame.mixer.Sound(path): the ways the constructor can end.  A corrupt
\* file raises pygame.error.  A missing file raises pygame.error under
\* pygame 1.9 and FileNotFoundError (an OSError, not a pygame.error) under
\* pygame 2: both builds are possible.
SoundCtor(filename) ==
    CASE fileState[filename] = "ok" -> {"ok"}
      [] fileState[filename] = "corrupt" -> {"pygame.error"}
      [] OTHER -> {"pygame.error", "FileNotFoundError"}

NewSound(filename) == [file |-> filename, volume |-> 100]

\* except pygame.error: the exceptions the handler of load_sound catches
LoadCaught == {"pygame.error"}

\* a load_sound that forgets to store the Sound it decoded
SoundsAfterLoad_drop(name, sound) == sounds

\* a load_sound that rebuilds the registry around the new Sound
SoundsAfterLoad_only(name, sound) == (name :> sound)

\* a load_sound that registers nothing while the store is muted
SoundsAfterLoad_muted(name, sound) ==
    IF sound_on THEN (name :> sound) @@ sounds ELSE sounds

\* self.sounds[name] = sound
SoundsAfterLoad(name, sound) == (name :> sound) @@ sounds

\* a load_sound that leaves a loaded name in the missing set
MissingAfterLoad_keep(name) == _missing_sounds

\* if name in self._missing_sounds: self._missing_sounds.remove(name)
MissingAfterLoad(name) == _missing_sounds \ {name}

\* a load_sound that does not record the failure
MissingAfterFailure_forget(name) == _missing_sounds

\* the failure branch: self._missing_sounds.add(name)
MissingAfterFailure(name) == _missing_sounds \cup {name}

load_sound(name, filename, res) ==
    /\ res \in SoundCtor(filename)
    /\ IF res \in LoadCaught
       THEN /\ _missing_sounds' = MissingAfterFailure(name)
            /\ sounds' = sounds
            /\ loaded' = loaded
            /\ load_failed' = load_failed \cup {name}
            /\ last' = Effect("load_sound", name, "none", "load_failed", "none", {}, {})
       ELSE IF res = "ok"
       THEN /\ sounds' = SoundsAfterLoad(name, NewSound(filename))
            /\ _missing_sounds' = MissingAfterLoad(name)
            /\ loaded' = (name :> filename) @@ loaded
            /\ load_failed' = load_failed \ {name}
            /\ last' = Effect("load_sound", name, "none", "none", "none", {}, {})
       ELSE /\ sounds' = sounds
            /\ _missing_sounds' = _missing_sounds
            /\ loaded' = loaded
            /\ load_failed' = load_failed \cup {name}
            /\ last' = Effect("load_sound", name, res, "none", "none", {}, {})
    /\ history' = Called("load_sound")
    /\ UNCHANGED <<sound_on, fileState, music, warnings, play_warnings, found_channel>>

(* ------------------------- _warn_missing_sound ------------------------ *)

\* a _warn_missing_sound without the membership test
WarnLogs_always(name) == TRUE

\* whether _warn_missing_sound(name) logs
WarnLogs(name) == name \notin _missing_sounds

_warn_missing_sound(name) ==
    IF WarnLogs(name)
    THEN /\ _missing_sounds' = _missing_sounds \cup {name}
         /\ warnings' = [warnings EXCEPT ![name] = @ + 1]
    ELSE /\ _missing_sounds' = _missing_sounds
         /\ warnings' = warnings

WarnLine(name) == IF WarnLogs(name) THEN "not_registered" ELSE "none"

(* -------------------------------- play -------------------------------- *)

\* sound = self.sounds.get(name); "if not sound"
Registered(name) == name \in DOMAIN sounds

\* play and play_music without the mute check
Muted_never == FALSE

\* the early return of play and play_music
Muted == ~sound_on

\* a play that never uses the channel find_channel() found
Dispatch_own(channel) == "sound"

\* "if channel: channel.play(sound) else: sound.play()": who plays the clip
Dispatch(channel) == IF channel THEN "channel" ELSE "sound"

\* channel = pygame.mixer.find_channel(): a free Channel, or None
play(name, channel) ==
    /\ IF Muted
       THEN /\ last' = Effect("play", name, "none", "none", "none", {}, {})
            /\ found_channel' = "not_called"
            /\ UNCHANGED <<_missing_sounds, warnings, play_warnings>>
       ELSE IF ~Registered(name)
       THEN /\ _warn_missing_sound(name)
            /\ play_warnings' = [play_warnings EXCEPT ![name] =
                                    IF WarnLogs(name) THEN @ + 1 ELSE @]
            /\ found_channel' = "not_called"
            /\ last' = Effect("play", name, "none", WarnLine(name), "none", {}, {})
       ELSE /\ last' = Effect("play", name, "none", "none", Dispatch(channel),
                              {sounds[name]}, {})
            /\ found_channel' = IF channel THEN "channel" ELSE "None"
            /\ UNCHANGED <<_missing_sounds, warnings, play_warnings>>
    /\ history' = Called("play")
    /\ UNCHANGED <<sounds, sound_on, fileState, music, loaded, load_failed>>

(* ----------------------------- set_volume ----------------------------- *)

set_volume(name, volume) ==
    /\ IF Registered(name)
       THEN /\ sounds' = [sounds EXCEPT ![name].volume = volume]
            /\ last' = Effect("set_volume", name, "none", "none", "none", {},
                              {sounds[name]})
            /\ UNCHANGED <<_missing_sounds, warnings>>
       ELSE /\ _warn_missing_sound(name)
            /\ sounds' = sounds
            /\ last' = Effect("set_volume", name, "none", WarnLine(name), "none", {}, {})
    /\ history' = Called("set_volume")
    /\ UNCHANGED <<sound_on, fileState, music, loaded, load_failed, play_warnings,
                   found_channel>>

(* ---------------------------- toggle_sound ---------------------------- *)

\* a toggle_sound that mutes instead of flipping
toggle_sound_off ==
    /\ sound_on' = FALSE
    /\ last' = Effect("toggle_sound", "", "none", "none", "none", {}, {})
    /\ history' = Called("toggle_sound")
    /\ UNCHANGED <<sounds, _missing_sounds, fileState, music, warnings, loaded,
                   load_failed, play_warnings, found_channel>>

toggle_sound ==
    /\ sound_on' = ~sound_on
    /\ last' = Effect("toggle_sound", "", "none", "none", "none", {}, {})
    /\ history' = Called("toggle_sound")
    /\ UNCHANGED <<sounds, _missing_sounds, fileState, music, warnings, loaded,
                   load_failed, play_warnings, found_channel>>

(* ----------------------------- play_music ----------------------------- *)

\* a play_music that does not look for the file first
PathExists_always(file_name) == TRUE

\* os.path.exists(path)
PathExists(file_name) == fileState[file_name] # "absent"

\* pygame.mixer.music.load(path); pygame.mixer.music.play(loops): "played",
\* or pygame.error from load (a file that does not decode) or from play
MusicBackend(file_name) ==
    IF fileState[file_name] = "ok" THEN {"played", "pygame.error"}
    ELSE {"pygame.error"}

play_music(file_name, res) ==
    /\ IF Muted
       THEN /\ last' = Effect("play_music", file_name, "none", "none", "none", {}, {})
            /\ UNCHANGED <<_missing_sounds, warnings, music>>
       ELSE IF ~PathExists(file_name)
       THEN /\ _warn_missing_sound(file_name)
            /\ last' = Effect("play_music", file_name, "none", WarnLine(file_name),
                              "none", {}, {})
            /\ music' = music
       ELSE /\ res \in MusicBackend(file_name)
            /\ IF res = "played"
               THEN /\ music' = file_name
                    /\ last' = Effect("play_music", file_name, "none", "none",
                                      "music", {}, {})
               ELSE /\ music' = music
                    /\ last' = Effect("play_music", file_name, "none", "music_error",
                                      "music", {}, {})
            /\ UNCHANGED <<_missing_sounds, warnings>>
    /\ history' = Called("play_music")
    /\ UNCHANGED <<sounds, sound_on, fileState, loaded, load_failed, play_warnings,
                   found_channel>>

(* ------------- a caller of one SoundManager: any call, any order ------- *)

\* an exception that left the last call unwinds its caller: nothing in main.py
\* catches it, so the process ends with a traceback
Raised == last.raised # "none"

\* the code that holds the store and calls it: a test driver ("caller"), or the
\* active scene inside handle_events and update
CanCall ==
    /\ pc \in {"caller", "handle_events", "update"}
    /\ nops < (IF pc = "caller" THEN MaxOps ELSE MaxSceneOps)
    /\ ~Raised

CallLoad ==
    /\ CanCall
    /\ \E name \in Keys, filename \in Files, res \in {"ok", "pygame.error", "FileNotFoundError"} :
          load_sound(name, filename, res)
    /\ nops' = nops + 1
    /\ UNCHANGED progVars

CallPlay ==
    /\ CanCall
    /\ \E name \in Keys, channel \in BOOLEAN : play(name, channel)
    /\ nops' = nops + 1
    /\ UNCHANGED progVars

CallSetVolume ==
    /\ CanCall
    /\ \E name \in Keys, volume \in Volumes : set_volume(name, volume)
    /\ nops' = nops + 1
    /\ UNCHANGED progVars

CallToggle ==
    /\ CanCall
    /\ toggle_sound
    /\ nops' = nops + 1
    /\ UNCHANGED progVars

CallPlayMusic ==
    /\ CanCall
    /\ \E file_name \in Files, res \in {"played", "pygame.error"} :
          play_music(file_name, res)
    /\ nops' = nops + 1
    /\ UNCHANGED progVars

ProgIdle ==
    /\ index = 0
    /\ queue = <<>>
    /\ log = <<>>
    /\ pygame_quit = FALSE
    /\ current_scene = 0
    /\ is_running = FALSE
    /\ next_scene = 0
    /\ cleaned = <<>>

StoreInit ==
    /\ SoundManagerInit
    /\ fileState \in [Files -> FileStates]
    /\ pc = "caller"
    /\ ProgIdle

StoreNext == CallLoad \/ CallPlay \/ CallSetVolume \/ CallToggle \/ CallPlayMusic

SpecStore == StoreInit /\ [][StoreNext]_vars

(* ------------------------- main.py: the program ----------------------- *)

\* pygame.event.get() returns and removes the whole queue; at most this many
\* events wait in it at a time
MaxQueue == 1

\* scene objects the main loop goes through
MaxScenes == 2

EventTypes == {"QUIT", "KEYDOWN"}

\* sound_settings of main(): (name, (filename, volume)), its first entries,
\* gains in hundredths
sound_settings ==
    << [name |-> "jump", filename |-> "jump.mp3", volume |-> 5],
       [name |-> "hit", filename |-> "hit.mp3", volume |-> 0] >>

\* total = len(settings_list)
total == Len(sound_settings)

\* the window system posts an event while the process runs
PostEvent ==
    /\ pc \notin {"caller", "exited", "returned"}
    /\ ~Raised
    /\ Len(queue) < MaxQueue
    /\ \E e \in EventTypes : queue' = Append(queue, e)
    /\ UNCHANGED <<pc, index, log, pygame_quit, current_scene, is_running, next_scene, cleaned>>
    /\ UNCHANGED storeVars

\* an event loop that never looks for QUIT
QuitSeen_never == FALSE

\* "if event.type == pygame.QUIT" holds for an event of pygame.event.get()
QuitSeen == \E i \in 1..Len(queue) : queue[i] = "QUIT"

\* an entry of log: a call of _load_sounds for entry k and how it ended, or
\* the frame "Loading k/of"
Logged(ev, k, name, res, of) == [ev |-> ev, k |-> k, name |-> name, res |-> res, of |-> of]

\* _load_sounds, lines 71-74: drain the events; on QUIT pygame.quit(); sys.exit()
LoadEvents ==
    /\ pc = "load_events"
    /\ queue' = <<>>
    /\ IF QuitSeen
       THEN /\ pygame_quit' = TRUE
            /\ pc' = "exited"
       ELSE /\ pygame_quit' = pygame_quit
            /\ pc' = "load_sound"
    /\ UNCHANGED <<index, log, current_scene, is_running, next_scene, cleaned>>
    /\ UNCHANGED storeVars

\* _load_sounds, line 76
LoadSound ==
    /\ pc = "load_sound"
    /\ \E res \in {"ok", "pygame.error", "FileNotFoundError"} :
          /\ load_sound(sound_settings[index].name, sound_settings[index].filename, res)
          /\ log' = Append(log, Logged("load_sound", index, sound_settings[index].name, res, 0))
    /\ pc' = "set_volume"
    /\ UNCHANGED <<nops, index, queue, pygame_quit, current_scene, is_running, next_scene, cleaned>>

\* _load_sounds, line 77
LoadSetVolume ==
    /\ pc = "set_volume"
    /\ ~Raised
    /\ set_volume(sound_settings[index].name, sound_settings[index].volume)
    /\ log' = Append(log, Logged("set_volume", index, sound_settings[index].name, "none", 0))
    /\ pc' = "draw_loading"
    /\ UNCHANGED <<nops, index, queue, pygame_quit, current_scene, is_running, next_scene, cleaned>>

\* enumerate() left at its default start of 0
Progress_from0 == index - 1

\* enumerate(settings_list, start=1): the "current" of the frame of this entry
Progress == index

\* a frame that ends by looking for QUIT as the drain of lines 71-74 does
AfterFrame_polls ==
    IF QuitSeen THEN "exited" ELSE IF index < total THEN "load_events" ELSE "main_test"

\* the entry after the frame: the next iteration of the for loop, or, after the
\* last one, the return to main(), which builds the TitleScene
AfterFrame ==
    IF index < total THEN "load_events" ELSE "main_test"

\* _load_sounds, lines 79-80: _draw_loading_screen(..., index, total); clock.tick(60)
LoadDraw ==
    /\ pc = "draw_loading"
    /\ log' = Append(log, Logged("draw", Progress, "Loading", "none", total))
    /\ pc' = AfterFrame
    /\ IF index < total
       THEN /\ index' = index + 1
            /\ UNCHANGED <<current_scene, is_running>>
       ELSE /\ index' = index
            /\ current_scene' = 1
            /\ is_running' = TRUE
    /\ UNCHANGED <<queue, pygame_quit, next_scene, cleaned>>
    /\ UNCHANGED storeVars

\* main, lines 133 and 151: while current_scene.is_running ... pygame.quit()
MainTest ==
    /\ pc = "main_test"
    /\ IF is_running
       THEN /\ pc' = "main_events"
            /\ pygame_quit' = pygame_quit
       ELSE /\ pc' = "returned"
            /\ pygame_quit' = TRUE
    /\ UNCHANGED <<index, queue, log, current_scene, is_running, next_scene, cleaned>>
    /\ UNCHANGED storeVars

\* main, lines 134-140
MainEvents ==
    /\ pc = "main_events"
    /\ queue' = <<>>
    /\ IF QuitSeen
       THEN /\ pygame_quit' = TRUE
            /\ pc' = "exited"
       ELSE /\ pygame_quit' = pygame_quit
            /\ pc' = "handle_events"
    /\ UNCHANGED <<index, log, current_scene, is_running, next_scene, cleaned>>
    /\ UNCHANGED storeVars

\* main, line 142: the scene's handle_events returns; it may have ended the game
SceneHandleEvents ==
    /\ pc = "handle_events"
    /\ ~Raised
    /\ \E stop \in BOOLEAN : is_running' = (is_running /\ ~stop)
    /\ pc' = "update"
    /\ UNCHANGED <<index, queue, log, pygame_quit, current_scene, next_scene, cleaned>>
    /\ UNCHANGED storeVars

\* the scene a transition hands over: a scene object constructed for it
NewScene == current_scene + 1

\* main, line 143: the scene's update returns; it may have asked for a transition
SceneUpdate ==
    /\ pc = "update"
    /\ ~Raised
    /\ \E go \in BOOLEAN :
          next_scene' = IF go /\ current_scene < MaxScenes THEN NewScene
                        ELSE next_scene
    /\ pc' = "draw"
    /\ UNCHANGED <<index, queue, log, pygame_quit, current_scene, is_running, cleaned>>
    /\ UNCHANGED storeVars

\* a swap that cleans the outgoing scene up and keeps it
SceneAfterSwap_stay == current_scene

\* current_scene = current_scene.next_scene
SceneAfterSwap == next_scene

\* cleanup() calls received by a scene object so far
Cleanups(scene) == IF scene \in DOMAIN cleaned THEN cleaned[scene] ELSE 0

\* main, lines 144-149: draw, flip, and the swap of the scene
SceneDrawSwap ==
    /\ pc = "draw"
    /\ IF next_scene # 0
       THEN /\ cleaned' = (current_scene :> (Cleanups(current_scene) + 1)) @@ cleaned
            /\ current_scene' = SceneAfterSwap
            /\ is_running' = TRUE
            /\ next_scene' = 0
       ELSE UNCHANGED <<cleaned, current_scene, is_running, next_scene>>
    /\ pc' = "main_test"
    /\ UNCHANGED <<index, queue, log, pygame_quit>>
    /\ UNCHANGED storeVars

Init ==
    /\ SoundManagerInit
    /\ fileState \in [Files -> FileStates]
    /\ pc = "load_events"
    /\ index = 1
    /\ queue = <<>>
    /\ log = <<>>
    /\ pygame_quit = FALSE
    /\ current_scene = 0
    /\ is_running = FALSE
    /\ next_scene = 0
    /\ cleaned = <<>>

Next ==
    \/ PostEvent
    \/ LoadEvents \/ LoadSound \/ LoadSetVolume \/ LoadDraw
    \/ MainTest \/ MainEvents \/ SceneHandleEvents \/ SceneUpdate \/ SceneDrawSwap
    \/ CallLoad \/ CallPlay \/ CallSetVolume \/ CallToggle \/ CallPlayMusic

Spec == Init /\ [][Next]_vars

\* the steps of the one thread of main(): the process is single-threaded and
\* nothing blocks it, so whenever it can take its next step it takes it; the
\* window system and the scenes' calls of the store are under no obligation
ProgramStep ==
    \/ LoadEvents \/ LoadSound \/ LoadSetVolume \/ LoadDraw
    \/ MainTest \/ MainEvents \/ SceneHandleEvents \/ SceneUpdate \/ SceneDrawSwap

SpecLive == Init /\ [][Next]_vars /\ WF_vars(ProgramStep)

(* ------------------------------ properties ---------------------------- *)

\* C1: after any sequence of SoundManager calls, no name is at the same time
\* a key of sounds and a member of _missing_sounds.
C1_RegistryMissingDisjoint ==
    \A k \in AllKeys : ~(k \in DOMAIN sounds /\ k \in _missing_sounds)

\* the last call was a load_sound whose file failed to open or decode
LoadFailed ==
    /\ last.op = "load_sound"
    /\ (last.raised # "none" \/ last.logged = "load_failed")

\* C2: load_sound never lets a failure escape: whenever the file fails to open
\* or decode, load_sound returns normally and the name is in the missing set.
C2_LoadFailureSwallowed ==
    LoadFailed => (last.raised = "none" /\ last.name \in _missing_sounds)

\* the last call was a load_sound that succeeded
LoadSucceeded ==
    /\ last.op = "load_sound"
    /\ last.raised = "none"
    /\ last.logged = "none"

\* C3: right after a successful load_sound(name, file), whatever the state
\* before, name is in the registry and not in the missing set; and every
\* unmuted play(name) made after a successful load of name hands exactly the
\* Sound loaded for name to the mixer.
C3_LoadSuccessThenPlayable ==
    /\ LoadSucceeded =>
          (last.name \in DOMAIN sounds /\ last.name \notin _missing_sounds)
    /\ (last.op = "play" /\ sound_on /\ last.name \in DOMAIN loaded) =>
          /\ Cardinality(last.played) = 1
          /\ \A s \in last.played : s.file = loaded[last.name]
          /\ last.via \in {"channel", "sound"}

\* a name that was in the missing set (it was warned about) was loaded later,
\* and an unmuted play of it has just been dispatched
C3_Witness ==
    /\ last.op = "play"
    /\ last.name = "jump"
    /\ last.played # {}
    /\ warnings["jump"] > 0

\* the load_sound that _load_sounds made for name failed, and returned
FailedInLoading(name) ==
    \E i \in 1..Len(log) :
       /\ log[i].ev = "load_sound"
       /\ log[i].name = name
       /\ log[i].res # "ok"
       /\ ~(i = Len(log) /\ pc = "set_volume" /\ Raised)

\* load_sound of the current entry of _load_sounds has just returned
JustLoaded(name) ==
    /\ pc = "set_volume"
    /\ ~Raised
    /\ sound_settings[index].name = name

\* the last call was play or set_volume of name and it touched no Sound
NoOpOn(name) ==
    (last.op \in {"play", "set_volume"} /\ last.name = name) =>
       (last.played = {} /\ last.volset = {} /\ last.via = "none")

\* C4 as stated: for every manifest entry whose load failed, after load_sound
\* returns the name is in the missing set and not in the registry, and every
\* later play and set_volume of that name is a no-op.
C4_FailedEntryAlwaysNoOp ==
    \A name \in Names :
       FailedInLoading(name) =>
          /\ JustLoaded(name) => (name \in _missing_sounds /\ name \notin DOMAIN sounds)
          /\ NoOpOn(name)

\* C4 (amended): the same, the play and set_volume calls being those made
\* before any later load_sound of that name succeeds.
C4_FailedEntryNoOpUntilLoaded ==
    \A name \in Names :
       FailedInLoading(name) =>
          /\ JustLoaded(name) => (name \in _missing_sounds /\ name \notin DOMAIN sounds)
          /\ name \notin DOMAIN loaded => NoOpOn(name)

\* a scene has just played, unmuted, a name whose load failed at start-up
C4_Witness ==
    /\ FailedInLoading("jump")
    /\ "jump" \notin DOMAIN loaded
    /\ last.op = "play"
    /\ last.name = "jump"
    /\ sound_on
    /\ last.played = {}

\* C5: for every name the "Sound '<name>' is not registered" warning is logged
\* at most once in the lifetime of one SoundManager.
C5_WarnedAtMostOnce ==
    \A k \in AllKeys : warnings[k] <= 1

\* C6: while muted, play and play_music are complete no-ops: nothing reaches
\* the mixer, nothing is logged, and the registry, the missing set and the
\* music channel are as they were before the call.
C6_MutedPlayIsNoOp ==
    (~sound_on /\ last.op \in {"play", "play_music"}) =>
       /\ last.played = {}
       /\ last.via = "none"
       /\ last.logged = "none"
       /\ last.raised = "none"
       /\ Store = history[Len(history)].before

\* a registered name has just been played while muted
C6_Witness ==
    /\ ~sound_on
    /\ last.op = "play"
    /\ last.name \in DOMAIN sounds

\* C7: toggle_sound flips sound_on and changes nothing else of the store or of
\* the mixer, and two consecutive toggle_sound calls give back the store as it
\* was before them.
C7_ToggleFlipsOnlyMute ==
    LET n == Len(history)
    IN  /\ (n >= 1 /\ history[n].op = "toggle_sound") =>
              /\ Store = [history[n].before EXCEPT !.sound_on = ~@]
              /\ last.played = {}
              /\ last.volset = {}
        /\ (n = 2 /\ history[1].op = "toggle_sound" /\ history[2].op = "toggle_sound") =>
              Store = history[1].before

\* two toggles in a row on a store that holds a sound and a missing name
C7_Witness ==
    /\ Len(history) = 2
    /\ history[1].op = "toggle_sound"
    /\ history[2].op = "toggle_sound"
    /\ DOMAIN sounds # {}
    /\ _missing_sounds # {}

\* _load_sounds has returned to main()
LoadingComplete == current_scene # 0

\* C8: when the loading sequence has run to completion, load_sound was called
\* exactly once per manifest entry, in manifest order, each followed by
\* set_volume of the same name; and at the end of loading every manifest name
\* is in exactly one of the registry (its load succeeded) and the missing set
\* (its load failed).
C8_EveryEntryAttemptedOnce ==
    LoadingComplete =>
       /\ Len(log) = 3 * total
       /\ \A k \in 1..total :
             /\ log[3 * k - 2].ev = "load_sound"
             /\ log[3 * k - 2].k = k
             /\ log[3 * k - 2].name = sound_settings[k].name
             /\ log[3 * k - 1].ev = "set_volume"
             /\ log[3 * k - 1].name = sound_settings[k].name
             /\ log[3 * k].ev = "draw"
       /\ nops = 0 =>
             \A k \in 1..total :
                LET name == sound_settings[k].name
                IN  /\ (name \in DOMAIN sounds) # (name \in _missing_sounds)
                    /\ (name \in DOMAIN sounds) = (log[3 * k - 2].res = "ok")

\* loading is over, one entry loaded and one recorded as missing
C8_Witness ==
    /\ LoadingComplete
    /\ nops = 0
    /\ "jump" \in DOMAIN sounds
    /\ "hit" \in _missing_sounds

\* the positions of log that are frames
Frames == {i \in 1..Len(log) : log[i].ev = "draw"}

\* C9: the loading screen shows 1, 2, ..., N in this order, always of N; the
\* frame showing k is drawn after load_sound and set_volume of the k-th entry
\* have returned; and a loading that completes has drawn exactly N frames.
C9_ProgressCountsUp ==
    /\ \A i \in Frames :
          /\ log[i].of = Len(sound_settings)
          /\ log[i].k = Cardinality({j \in Frames : j < i}) + 1
          /\ \E a \in 1..(i - 1), b \in 1..(i - 1) :
                /\ a < b
                /\ log[a].ev = "load_sound"
                /\ log[a].name = sound_settings[log[i].k].name
                /\ log[b].ev = "set_volume"
                /\ log[b].name = sound_settings[log[i].k].name
    /\ LoadingComplete => Cardinality(Frames) = Len(sound_settings)

\* the last frame of a complete loading shows N/N
C9_Witness ==
    /\ LoadingComplete
    /\ Len(log) > 0
    /\ log[Len(log)].ev = "draw"
    /\ log[Len(log)].k = Len(sound_settings)

\* a QUIT event waits in the event queue
QuitPending == \E i \in 1..Len(queue) : queue[i] = "QUIT"

\* C10: a QUIT event that is in the queue when an entry of the manifest is
\* about to be processed halts the loading: nothing more is loaded, set or
\* drawn, the event is not dropped, and the process ends through
\* pygame.quit(); once it has ended nothing more happens.
C10_QuitHaltsLoading ==
    [][ /\ (pc = "load_events" /\ QuitPending) =>
              /\ log' = log
              /\ sounds' = sounds
              /\ pc' \in {"load_events", "exited"}
              /\ pc' = "exited" => pygame_quit'
              /\ pc' = "load_events" => QuitPending'
        /\ pc = "exited" => (pygame_quit /\ pc' = "exited" /\ log' = log)
      ]_vars

\* the process ended on a QUIT seen after the first entry and before the second
C10_Witness ==
    /\ pc = "exited"
    /\ pygame_quit
    /\ Len(log) = 3
    /\ index = 2

\* the process has ended: sys.exit() after QUIT, or main() returned
Terminated == pc \in {"exited", "returned"}

\* C11: a QUIT event in the queue, at any point of the loading sequence or of
\* the main loop, leads to pygame.quit() having been called and the process
\* having ended, unless a call does not return (an exception leaves it).
C11_QuitLeadsToExit ==
    QuitPending ~> ((Terminated /\ pygame_quit) \/ Raised)

\* the main loop has seen a QUIT event and ended the process
C11_Witness ==
    /\ pc = "exited"
    /\ pygame_quit
    /\ current_scene # 0
    /\ queue = <<>>

\* the store as it was before the most recent call
Before == history[Len(history)].before

\* C12: after a load_sound(name, file) that failed, in any prior state of the
\* store, every play(name) dispatches nothing and logs nothing, until a later
\* load_sound of that name succeeds.
C12_FailedLoadSilencesPlay ==
    (last.op = "play" /\ last.name \in load_failed) =>
       (last.played = {} /\ last.via = "none" /\ last.logged = "none")

\* the last call was an unmuted play of a name that is not in the registry
PlayedUnknown ==
    /\ last.op = "play"
    /\ sound_on
    /\ last.name \notin DOMAIN sounds

\* C13 as stated: for a name that is not in the registry, unmuted play logs
\* the warning exactly once per name (the first play logs it, later ones are
\* silent) and never dispatches, also after a failed load_sound or a
\* set_volume of that name.
C13_PlayWarnsExactlyOnce ==
    PlayedUnknown =>
       /\ play_warnings[last.name] = 1
       /\ last.played = {}
       /\ last.via = "none"

\* C13 (amended): play logs the warning at most once per name; an unmuted
\* play of an unregistered name logs it exactly when the name is not yet in
\* the missing set, leaves the name in the missing set (so later plays are
\* silent) and never dispatches.
C13_PlayWarnsAtMostOnce ==
    /\ \A k \in AllKeys : play_warnings[k] <= 1
    /\ PlayedUnknown =>
          /\ last.played = {}
          /\ last.via = "none"
          /\ last.name \in _missing_sounds
          /\ (last.logged = "not_registered") = (last.name \notin Before.missing)

\* a second play of an unknown name, silent after the first one logged
C13_Witness ==
    /\ PlayedUnknown
    /\ last.name = "jump"
    /\ last.logged = "none"
    /\ play_warnings["jump"] = 1

\* C14: an unmuted play of a registered name hands that name's Sound to the
\* mixer exactly once, on the channel find_channel() returned when there is
\* one and through the Sound's own play otherwise, logs nothing and changes
\* neither the registry nor the missing set.
C14_PlayDispatchesOnce ==
    (last.op = "play" /\ sound_on /\ last.name \in DOMAIN Before.sounds) =>
       /\ last.played = {Before.sounds[last.name]}
       /\ found_channel \in {"channel", "None"}
       /\ (found_channel = "channel") = (last.via = "channel")
       /\ (found_channel = "None") = (last.via = "sound")
       /\ last.logged = "none"
       /\ last.raised = "none"
       /\ Store = Before

\* no channel was free and the clip was played through the Sound itself
C14_Witness ==
    /\ last.op = "play"
    /\ found_channel = "None"
    /\ last.via = "sound"
    /\ last.played # {}

\* C15: an unmuted play_music never raises and never touches the registry;
\* when the file does not exist it calls neither music.load nor music.play;
\* when the mixer fails the failure is logged and play_music returns.
C15_PlayMusicNeverRaises ==
    (last.op = "play_music" /\ sound_on) =>
       /\ last.raised = "none"
       /\ sounds = Before.sounds
       /\ fileState[last.name] = "absent" =>
             (last.via = "none" /\ music = Before.music)
       /\ fileState[last.name] # "absent" =>
             /\ last.via = "music"
             /\ last.logged = "music_error" \/ music = last.name
             /\ last.logged = "music_error" => music = Before.music

\* the mixer failed on an existing file and play_music returned
C15_Witness ==
    /\ last.op = "play_music"
    /\ sound_on
    /\ last.logged = "music_error"
    /\ last.raised = "none"

\* C16: no call removes a name from sounds; only a successful load_sound adds
\* a name or replaces its Sound; a failed load_sound leaves the registry,
\* the Sound of an already registered name included, as it was.
C16_RegistryOnlyGrows ==
    Len(history) > 0 =>
       /\ DOMAIN Before.sounds \subseteq DOMAIN sounds
       /\ ~LoadSucceeded =>
             /\ DOMAIN sounds = DOMAIN Before.sounds
             /\ \A k \in DOMAIN sounds : sounds[k].file = Before.sounds[k].file
       /\ LoadSucceeded =>
             \A k \in DOMAIN Before.sounds \ {last.name} : sounds[k] = Before.sounds[k]
       /\ LoadFailed => sounds = Before.sounds

\* a load_sound of a registered name has failed and its Sound is still there
C16_Witness ==
    /\ LoadFailed
    /\ last.raised = "none"
    /\ last.name \in DOMAIN sounds

\* the active scene is inside, or about to enter, one of its three methods
InSceneMethod == pc \in {"handle_events", "update", "draw"}

PastDrain == pc \in {"load_sound", "set_volume", "draw_loading"}

\* the calls of _load_sounds logged for entry k
Attempts(k) == {i \in 1..Len(log) : log[i].ev = "load_sound" /\ log[i].k = k}

\* C18: the loading loop looks for QUIT only in the drain at the start of an
\* iteration: past the drain of entry k, a QUIT in the queue stays there while
\* load_sound, set_volume and the frame of entry k run, none of them ends the
\* process, and after the frame of the last entry all N entries have been
\* attempted and control passes to the main loop with the queue as it was.
C18_QuitSeenOnlyAtDrain ==
    [][ /\ (pc = "load_sound" /\ pc' # pc) =>
              /\ pc' = "set_volume"
              /\ Attempts(index)' # {}
              /\ queue' = queue /\ pygame_quit' = pygame_quit
        /\ (pc = "set_volume" /\ pc' # pc) =>
              /\ pc' = "draw_loading"
              /\ log' = Append(log, Logged("set_volume", index, sound_settings[index].name, "none", 0))
              /\ queue' = queue /\ pygame_quit' = pygame_quit
        /\ (pc = "draw_loading" /\ pc' # pc) =>
              /\ pc' = (IF index < total THEN "load_events" ELSE "main_test")
              /\ log' = Append(log, Logged("draw", index, "Loading", "none", total))
              /\ queue' = queue /\ pygame_quit' = pygame_quit
              /\ index = total =>
                    /\ \A k \in 1..total : Cardinality(Attempts(k)) = 1
                    /\ current_scene' = 1
        /\ (pc' = "exited" /\ pc # "exited") => ~PastDrain
      ]_vars

\* a QUIT arrived after the drain of the last iteration: the last entry has
\* been loaded and its volume set, and its frame is about to be drawn
C18_Witness ==
    /\ pc = "draw_loading"
    /\ index = total
    /\ QuitPending
    /\ Len(log) = 3 * total - 1
    /\ ~pygame_quit

\* the registry keys of a store that is given the load_sound and set_volume
\* calls made so far, with the same file outcomes, and no other call: loaded
\* is written by load_sound alone, from the name, the file and the outcome of
\* the decoding, and set_volume adds no key
KeysOfLoadsAlone == DOMAIN loaded

\* C19: the keys of the registry do not depend on the mute flag: a store whose
\* load_sound and set_volume calls are interleaved with toggle_sound, play and
\* play_music calls has the registry keys of the store given the load_sound
\* and set_volume calls alone.
C19_RegistryIgnoresMute ==
    DOMAIN sounds = KeysOfLoadsAlone

\* a load_sound has just registered a name on a store that is muted, right
\* after a toggle_sound, play or play_music call
C19_Witness ==
    /\ LoadSucceeded
    /\ ~sound_on
    /\ Len(history) = 2
    /\ history[1].op \in {"toggle_sound", "play", "play_music"}
    /\ last.name \in DOMAIN sounds

====
